---- MODULE Spec2Model ----
(***************************************************************************)
(* A model of county-to-zipcode.py: the memoized reference loader          *)
(* (load_data), the archive builder (create_zip_archive) and the Streamlit *)
(* script (main), which Streamlit re-runs top to bottom on every           *)
(* interaction while the st.cache_data memo lives as long as the process.  *)
(*                                                                         *)
(* Strings whose characters matter (county names, filenames, timestamps)   *)
(* are sequences of one-character strings. Zipcodes are atomic strings:    *)
(* the provider already yields them as str, so astype(str) leaves them as  *)
(* they are. A table (DataFrame) is a record of its column names and its   *)
(* rows in order.                                                          *)
(***************************************************************************)
EXTENDS Integers, Sequences, FiniteSets, TLC

VARIABLES
    cache,              \* st.cache_data memo of load_data: [hit, value]
    fetches,            \* how many times the provider was queried (line 20)
    runs,               \* how many times the script main() was started
    pc,                 \* position of the current run of main()
    df,                 \* main: the table load_data returned
    selected_counties,  \* main: the multiselect's value
    df_filtered,        \* the argument of create_zip_archive
    clock,              \* the value datetime.now() returned to the builder
    zip_buffer,         \* the outcome of create_zip_archive
    ui                  \* the Streamlit elements this run rendered

vars == <<cache, fetches, runs, pc, df, selected_counties, df_filtered,
          clock, zip_buffer, ui>>

---------------------------------------------------------------------------
(* Bounds *)

MaxRecords == 3

MaxRuns == 2

---------------------------------------------------------------------------
(* Characters and strings *)

\* The characters in use, in code point order (Python compares str by code point).
CodePointOrder ==
    <<" ", ",", ".", "0", "1", "2", "3", "4", "5", "6", "7", "8", "9",
      "A", "B", "C", "L", "_",
      "a", "c", "e", "f", "g", "i", "l", "n", "o", "r", "s", "v">>

Ord(c) == CHOOSE i \in 1..Len(CodePointOrder) : CodePointOrder[i] = c

RECURSIVE StrLess(_, _)
StrLess(a, b) ==
    IF a = <<>> THEN b # <<>>
    ELSE IF b = <<>> THEN FALSE
    ELSE IF a[1] = b[1] THEN StrLess(Tail(a), Tail(b))
    ELSE Ord(a[1]) < Ord(b[1])

\* str.replace(old, new): left to right, non-overlapping occurrences.
RECURSIVE Replace(_, _, _)
Replace(s, old, new) ==
    IF Len(s) < Len(old) THEN s
    ELSE IF SubSeq(s, 1, Len(old)) = old
         THEN new \o Replace(SubSeq(s, Len(old) + 1, Len(s)), old, new)
         ELSE <<s[1]>> \o Replace(Tail(s), old, new)

DigitChars == <<"0", "1", "2", "3", "4", "5", "6", "7", "8", "9">>

\* A strftime field: n in decimal, zero-padded to w digits.
RECURSIVE Pad(_, _)
Pad(n, w) ==
    IF w = 0 THEN <<>> ELSE Pad(n \div 10, w - 1) \o <<DigitChars[(n % 10) + 1]>>

\* datetime.strftime("%Y%m%d_%H%M%S")
strftime(t) ==
    Pad(t.year, 4) \o Pad(t.month, 2) \o Pad(t.day, 2) \o <<"_">>
        \o Pad(t.hour, 2) \o Pad(t.minute, 2) \o Pad(t.second, 2)

\* The instants datetime.now() may return.
Clocks ==
    { [year |-> 2023, month |-> 11, day |-> 5, hour |-> 4, minute |-> 58, second |-> 48],
      [year |-> 2026, month |-> 1, day |-> 2, hour |-> 13, minute |-> 0, second |-> 9] }

---------------------------------------------------------------------------
(* The provider's data *)

LosAngeles == <<"L", "o", "s", " ", "A", "n", "g", "e", "l", "e", "s">>
California == <<"C", "a", "l", "i", "f", "o", "r", "n", "i", "a">>

\* What SimpleZipcode.to_dict() yields (more fields than the loader keeps).
RawRecords ==
    { [zipcode |-> "90001", county |-> LosAngeles, state |-> California, major_city |-> "x"],
      [zipcode |-> "90210", county |-> LosAngeles, state |-> California, major_city |-> "x"],
      [zipcode |-> "10001", county |-> <<"A", " ", "B">>, state |-> <<"C">>, major_city |-> "x"],
      [zipcode |-> "00501", county |-> <<"A">>, state |-> <<"B", " ", "C">>, major_city |-> "x"],
      [zipcode |-> "90001", county |-> <<"A">>, state |-> <<"B", " ", "C">>, major_city |-> "x"] }

SeqUpTo(S, n) == UNION { [1..k -> S] : k \in 0..n }

\* An outcome of the query of line 19-20: it raises, or it yields a list.
ProviderOutcomes ==
    { [raises |-> TRUE, zips |-> <<>>] }
        \cup { [raises |-> FALSE, zips |-> z] : z \in SeqUpTo(RawRecords, MaxRecords) }

---------------------------------------------------------------------------
(* Tables *)

\* pd.DataFrame(): no columns, no rows.
EmptyFrame == [columns |-> {}, rows |-> <<>>]

\* DataFrame.empty: some axis has length 0.
IsEmpty(t) == t.columns = {} \/ Len(t.rows) = 0

Range(s) == { s[i] : i \in DOMAIN s }

\* Lines 28-32: keep zipcode, county, state; derive county_state.
Derive(z) ==
    [zipcode |-> z.zipcode, county |-> z.county, state |-> z.state,
     county_state |-> z.county \o <<",", " ">> \o z.state]

\* The body of load_data on a provider outcome. An empty list makes a
\* DataFrame without columns, df[['zipcode','county','state']] raises KeyError,
\* and the except clause returns pd.DataFrame() as for any other failure.
load_data_body(outcome) ==
    IF outcome.raises \/ outcome.zips = <<>>
    THEN EmptyFrame
    ELSE [columns |-> {"zipcode", "county", "state", "county_state"},
          rows |-> [i \in 1..Len(outcome.zips) |-> Derive(outcome.zips[i])]]

\* sorted(S): the strings of S in ascending order.
RECURSIVE SortAsc(_)
SortAsc(S) ==
    IF S = {} THEN <<>>
    ELSE LET m == CHOOSE x \in S : \A y \in S \ {x} : StrLess(x, y)
         IN  <<m>> \o SortAsc(S \ {m})

\* Line 86: sorted(df['county_state'].unique())
all_counties(t) == SortAsc({ r.county_state : r \in Range(t.rows) })

\* Filter with the mask forgotten: the whole table goes to the builder.
Filter_NoMask(t, selection) == t

\* Line 99: df[df['county_state'].isin(selected_counties)].copy()
Filter(t, selection) ==
    LET keep(r) == r.county_state \in selection
    IN  [columns |-> t.columns, rows |-> SelectSeq(t.rows, keep)]

---------------------------------------------------------------------------
(* The archive builder, lines 38-67 *)

\* zipfile.ZipFile opened for writing: the entry list and the name index.
NewZipFile == [filelist |-> <<>>, NameToInfo |-> <<>>]

\* writestr as a store keyed by name: a second write under a name replaces
\* the entry the first one made.
writestr_Overwrite(zip_file, filename, csv_string) ==
    IF filename \in DOMAIN zip_file.NameToInfo
    THEN [filelist |-> [zip_file.filelist EXCEPT ![zip_file.NameToInfo[filename]] =
                            [filename |-> filename, content |-> csv_string]],
          NameToInfo |-> zip_file.NameToInfo]
    ELSE [filelist |-> Append(zip_file.filelist,
                              [filename |-> filename, content |-> csv_string]),
          NameToInfo |-> [n \in (DOMAIN zip_file.NameToInfo) \cup {filename} |->
                             IF n = filename THEN Len(zip_file.filelist) + 1
                             ELSE zip_file.NameToInfo[n]]]

\* ZipFile.writestr: the entry is appended to the entry list (a name already
\* present only draws a "Duplicate name" warning) and the name index points
\* at the newest entry of that name.
writestr(zip_file, filename, csv_string) ==
    [filelist |-> Append(zip_file.filelist,
                         [filename |-> filename, content |-> csv_string]),
     NameToInfo |-> [n \in (DOMAIN zip_file.NameToInfo) \cup {filename} |->
                        IF n = filename THEN Len(zip_file.filelist) + 1
                        ELSE zip_file.NameToInfo[n]]]

RECURSIVE DropDuplicates(_)
DropDuplicates(s) ==
    IF s = <<>> THEN <<>>
    ELSE LET d == DropDuplicates(SubSeq(s, 1, Len(s) - 1))
         IN  IF s[Len(s)] \in Range(d) THEN d ELSE Append(d, s[Len(s)])

\* groupby with the repeated records of a group dropped.
groupby_Unique(rows) ==
    LET names == SortAsc({ r.county_state : r \in Range(rows) })
    IN  [i \in 1..Len(names) |->
            LET mine(r) == r.county_state = names[i]
            IN  [county_name |-> names[i],
                 group |-> DropDuplicates(SelectSeq(rows, mine))]]

\* Line 53: groupby('county_state') iterates the distinct keys in sorted
\* order; a group holds the rows of its key in their order in the table.
groupby(rows) ==
    LET names == SortAsc({ r.county_state : r \in Range(rows) })
    IN  [i \in 1..Len(names) |->
            LET mine(r) == r.county_state = names[i]
            IN  [county_name |-> names[i], group |-> SelectSeq(rows, mine)]]

\* The filename with the two replacements in the other order.
MakeFilename_SpacesFirst(county_name, timestamp) ==
    Replace(Replace(county_name, <<" ">>, <<"_">>), <<",", " ">>, <<"_">>)
        \o <<"_">> \o timestamp \o <<".", "c", "s", "v">>

\* Line 57: the entry's filename.
MakeFilename(county_name, timestamp) ==
    Replace(Replace(county_name, <<",", " ">>, <<"_">>), <<" ">>, <<"_">>)
        \o <<"_">> \o timestamp \o <<".", "c", "s", "v">>

\* Line 60: group[['zipcode']].to_csv(index=False): the header line, then one
\* line per row, each ended by a newline.
RECURSIVE CsvRows(_)
CsvRows(group) ==
    IF group = <<>> THEN <<>>
    ELSE <<Head(group).zipcode, "\n">> \o CsvRows(Tail(group))

\* to_csv without the header line.
to_csv_NoHeader(group) == CsvRows(group)

to_csv(group) == <<"zipcode", "\n">> \o CsvRows(group)

\* Lines 54-63: the loop over the groups, from group i on.
RECURSIVE WriteGroups(_, _, _, _)
WriteGroups(zip_file, grouped, i, timestamp) ==
    IF i > Len(grouped) THEN zip_file
    ELSE WriteGroups(
            writestr(zip_file,
                     MakeFilename(grouped[i].county_name, timestamp),
                     to_csv(grouped[i].group)),
            grouped, i + 1, timestamp)

NoBuffer == [status |-> "none", filelist |-> <<>>, NameToInfo |-> <<>>, pos |-> 0]

\* create_zip_archive(df_filtered) when datetime.now() returns `now`.
\* groupby raises KeyError on a table without the county_state column, and
\* group[['zipcode']] does on a group without the zipcode column; nothing in
\* the function catches it. Otherwise the buffer is returned rewound.
create_zip_archive(t, now) ==
    LET timestamp == strftime(now)
    IN  IF "county_state" \notin t.columns
           \/ (t.rows # <<>> /\ "zipcode" \notin t.columns)
        THEN [status |-> "KeyError", filelist |-> <<>>, NameToInfo |-> <<>>, pos |-> 0]
        ELSE LET zip_file == WriteGroups(NewZipFile, groupby(t.rows), 1, timestamp)
             IN  [status |-> "ok", filelist |-> zip_file.filelist,
                  NameToInfo |-> zip_file.NameToInfo, pos |-> 0]

---------------------------------------------------------------------------
(* The script, lines 69-116, and the memo of line 10 *)

NoCache == [hit |-> FALSE, value |-> EmptyFrame]

Init ==
    /\ cache = NoCache
    /\ fetches = 0
    /\ runs = 0
    /\ pc = "idle"
    /\ df = EmptyFrame
    /\ selected_counties = {}
    /\ df_filtered = EmptyFrame
    /\ clock = CHOOSE t \in Clocks : TRUE
    /\ zip_buffer = NoBuffer
    /\ ui = {}

\* Streamlit starts the script: at first load and on every interaction.
RunStart ==
    /\ pc \in {"idle", "done"}
    /\ runs < MaxRuns
    /\ runs' = runs + 1
    /\ pc' = "load"
    /\ df' = EmptyFrame
    /\ selected_counties' = {}
    /\ df_filtered' = EmptyFrame
    /\ zip_buffer' = NoBuffer
    /\ ui' = {}
    /\ UNCHANGED <<cache, fetches, clock>>

\* load_data memoizing only a successful load.
LoadDataMiss_FailureNotMemoized ==
    /\ pc = "load"
    /\ ~cache.hit
    /\ \E outcome \in ProviderOutcomes :
          LET value == load_data_body(outcome)
          IN  /\ cache' = IF value = EmptyFrame THEN cache
                          ELSE [hit |-> TRUE, value |-> value]
              /\ df' = value
              /\ ui' = IF value = EmptyFrame THEN ui \cup {"error"} ELSE ui
    /\ fetches' = fetches + 1
    /\ pc' = "check"
    /\ UNCHANGED <<runs, selected_counties, df_filtered, clock, zip_buffer>>

\* Line 78 with nothing memoized: the body runs, queries the provider, and
\* whatever it returns (the except clause's empty table too) is memoized.
LoadDataMiss ==
    /\ pc = "load"
    /\ ~cache.hit
    /\ \E outcome \in ProviderOutcomes :
          LET value == load_data_body(outcome)
          IN  /\ cache' = [hit |-> TRUE, value |-> value]
              /\ df' = value
              /\ ui' = IF value = EmptyFrame THEN ui \cup {"error"} ELSE ui
    /\ fetches' = fetches + 1
    /\ pc' = "check"
    /\ UNCHANGED <<runs, selected_counties, df_filtered, clock, zip_buffer>>

\* Line 78 with a memoized value: it is returned and the body does not run.
LoadDataHit ==
    /\ pc = "load"
    /\ cache.hit
    /\ df' = cache.value
    /\ pc' = "check"
    /\ UNCHANGED <<cache, fetches, runs, selected_counties, df_filtered, clock,
                   zip_buffer, ui>>

\* Lines 80-82.
CheckEmpty ==
    /\ pc = "check"
    /\ IF IsEmpty(df)
       THEN /\ ui' = ui \cup {"warning"}
            /\ pc' = "done"
       ELSE /\ ui' = ui
            /\ pc' = "select"
    /\ UNCHANGED <<cache, fetches, runs, df, selected_counties, df_filtered,
                   clock, zip_buffer>>

\* Lines 86-92: the multiselect returns the user's choice among the options.
Multiselect ==
    /\ pc = "select"
    /\ \E choice \in SUBSET Range(all_counties(df)) : selected_counties' = choice
    /\ pc' = "branch"
    /\ UNCHANGED <<cache, fetches, runs, df, df_filtered, clock, zip_buffer, ui>>

\* main without the test of line 95: it filters and exports whatever the
\* selection is.
Branch_NoPrompt ==
    /\ pc = "branch"
    /\ df_filtered' = Filter(df, selected_counties)
    /\ ui' = ui \cup {"dataframe"}
    /\ pc' = "archive"
    /\ UNCHANGED <<cache, fetches, runs, df, selected_counties, clock, zip_buffer>>

\* Lines 95-107.
Branch ==
    /\ pc = "branch"
    /\ IF selected_counties = {}
       THEN /\ ui' = ui \cup {"info"}
            /\ df_filtered' = df_filtered
            /\ pc' = "done"
       ELSE /\ df_filtered' = Filter(df, selected_counties)
            /\ ui' = ui \cup {"dataframe"}
            /\ pc' = "archive"
    /\ UNCHANGED <<cache, fetches, runs, df, selected_counties, clock, zip_buffer>>

\* Line 109: the call of create_zip_archive. An exception ends the run.
CreateZipArchive ==
    /\ pc = "archive"
    /\ \E now \in Clocks :
          /\ clock' = now
          /\ zip_buffer' = create_zip_archive(df_filtered, now)
    /\ pc' = IF zip_buffer'.status = "ok" THEN "download" ELSE "raised"
    /\ UNCHANGED <<cache, fetches, runs, df, selected_counties, df_filtered, ui>>

\* Lines 111-116.
DownloadButton ==
    /\ pc = "download"
    /\ ui' = ui \cup {"download_button"}
    /\ pc' = "done"
    /\ UNCHANGED <<cache, fetches, runs, df, selected_counties, df_filtered,
                   clock, zip_buffer>>

Next ==
    \/ RunStart
    \/ LoadDataMiss
    \/ LoadDataHit
    \/ CheckEmpty
    \/ Multiselect
    \/ Branch
    \/ CreateZipArchive
    \/ DownloadButton

Spec == Init /\ [][Next]_vars

---------------------------------------------------------------------------
(* The archive builder called on its own, on any table *)

BuilderColumns == {"zipcode", "county", "state", "county_state"}

\* The tables of at most MaxRecords records, and the table without columns
\* that load_data returns on failure.
BuilderInputs ==
    { EmptyFrame }
        \cup { [columns |-> BuilderColumns,
                rows |-> [i \in 1..Len(z) |-> Derive(z[i])]] :
               z \in SeqUpTo(RawRecords, MaxRecords) }

BuilderInit ==
    /\ cache = NoCache
    /\ fetches = 0
    /\ runs = 0
    /\ pc = "archive"
    /\ df = EmptyFrame
    /\ selected_counties = {}
    /\ df_filtered \in BuilderInputs
    /\ clock = CHOOSE t \in Clocks : TRUE
    /\ zip_buffer = NoBuffer
    /\ ui = {}

BuilderNext == CreateZipArchive

BuilderSpec == BuilderInit /\ [][BuilderNext]_vars

---------------------------------------------------------------------------
(* Reading an archive, and what the properties below speak of *)

\* The input of the call and its distinct county_state values.
InputRows == df_filtered.rows

Keys == { r.county_state : r \in Range(InputRows) }

\* The call of create_zip_archive has returned its buffer.
Returned == pc = "download" /\ zip_buffer.status = "ok"

\* The call has ended, by returning or by raising.
Ended == pc \in {"download", "raised"}

\* Group iteration order is the sorted order of the keys, and entries are
\* written in that order: the entry built for key k is at k's rank.
RankOf(k) == 1 + Cardinality({ k2 \in Keys : StrLess(k2, k) })

EntryFor(k) == zip_buffer.filelist[RankOf(k)]

\* The zipcodes of the input records of key k, in input order.
ZipsOf(k) ==
    LET mine(r) == r.county_state = k
        g == SelectSeq(InputRows, mine)
    IN  [i \in 1..Len(g) |-> g[i].zipcode]

\* CSV text back to its lines: a line is what a newline ends.
RECURSIVE SplitLines(_, _)
SplitLines(text, line) ==
    IF text = <<>> THEN (IF line = <<>> THEN <<>> ELSE <<line>>)
    ELSE IF Head(text) = "\n" THEN <<line>> \o SplitLines(Tail(text), <<>>)
    ELSE SplitLines(Tail(text), Append(line, Head(text)))

\* The zipcode column of a CSV text: its lines after the header, each one field.
Body(content) ==
    LET lines == SplitLines(content, <<>>)
    IN  [i \in 1..(Len(lines) - 1) |-> lines[i + 1][1]]

Count(x, s) == Cardinality({ i \in DOMAIN s : s[i] = x })

BagOfSeq(s) == [x \in Range(s) |-> Count(x, s)]

RECURSIVE Concat(_)
Concat(ss) == IF ss = <<>> THEN <<>> ELSE Head(ss) \o Concat(Tail(ss))

\* ZipFile.namelist() and ZipFile.read(name) / extractall(): a member is
\* looked up by its name, and a name leads to the newest entry written
\* under it.
namelist(zb) == [i \in DOMAIN zb.filelist |-> zb.filelist[i].filename]

read(zb, name) == zb.filelist[zb.NameToInfo[name]].content

ExtractAll(zb) == [i \in DOMAIN zb.filelist |-> read(zb, namelist(zb)[i])]

\* Two distinct county_state values of the input give the same filename.
Collision ==
    \E k1, k2 \in Keys :
        /\ k1 # k2
        /\ EntryFor(k1).filename = EntryFor(k2).filename

---------------------------------------------------------------------------
(* C1 *)

\* C1: for a non-empty sequence of records, create_zip_archive returns an
\* archive whose number of entries is the number of distinct county_state
\* values among the records.
C1_EntryCount ==
    (Ended /\ InputRows # <<>>) =>
        /\ Returned
        /\ Len(zip_buffer.filelist) = Cardinality(Keys)

\* Three distinct county_state values, two of which give the same filename.
C1_Witness ==
    /\ Returned
    /\ Cardinality(Keys) = 3
    /\ Len(zip_buffer.filelist) = 3
    /\ Collision

---------------------------------------------------------------------------
(* C2 *)

\* C2: every entry written is the entry of one group of the input, and its
\* CSV text is the header line "zipcode" followed by one line per input
\* record of that group and of no other, in the order of the input.
C2_EntryContent ==
    Returned =>
        \A i \in DOMAIN zip_buffer.filelist :
            \E k \in Keys :
                /\ RankOf(k) = i
                /\ SplitLines(zip_buffer.filelist[i].content, <<>>)
                       = <<<<"zipcode">>>> \o [j \in 1..Len(ZipsOf(k)) |-> <<ZipsOf(k)[j]>>]

\* Two groups interleaved in the input, one of them with two records.
C2_Witness ==
    /\ Returned
    /\ Len(InputRows) = 3
    /\ Cardinality(Keys) = 2
    /\ InputRows[1].county_state = InputRows[3].county_state
    /\ InputRows[1].zipcode # InputRows[3].zipcode

---------------------------------------------------------------------------
(* C3 *)

\* C3 as stated: the zipcode of every input record appears exactly once in
\* the CSV body of the entry built for the record's county_state.
C3_ExactlyOnce ==
    Returned =>
        \A i \in DOMAIN InputRows :
            Count(InputRows[i].zipcode,
                  Body(EntryFor(InputRows[i].county_state).content)) = 1

\* C3 amended: the zipcode of every input record appears in the CSV body of
\* the entry built for the record's county_state once per input record that
\* has this zipcode and this county_state; records of other groups with the
\* same zipcode add nothing to it.
C3_OncePerRecord ==
    Returned =>
        \A i \in DOMAIN InputRows :
            Count(InputRows[i].zipcode,
                  Body(EntryFor(InputRows[i].county_state).content))
                = Cardinality({ j \in DOMAIN InputRows :
                                  /\ InputRows[j].zipcode = InputRows[i].zipcode
                                  /\ InputRows[j].county_state = InputRows[i].county_state })

\* A zipcode twice in one group and once more in another group.
C3_Witness ==
    /\ Returned
    /\ Len(InputRows) = 3
    /\ InputRows[1] = InputRows[2]
    /\ InputRows[3].zipcode = InputRows[1].zipcode
    /\ InputRows[3].county_state # InputRows[1].county_state

---------------------------------------------------------------------------
(* C4 *)

\* C4: extracting every member of the returned archive and concatenating the
\* zipcode columns gives the multiset of the zipcodes of the input records.
C4_RoundTrip ==
    Returned =>
        BagOfSeq(Concat([i \in DOMAIN zip_buffer.filelist |->
                            Body(ExtractAll(zip_buffer)[i])]))
            = BagOfSeq([i \in DOMAIN InputRows |-> InputRows[i].zipcode])

---------------------------------------------------------------------------
(* C5 *)

\* C5: no two entries of the returned archive have the same filename.
C5_UniqueFilenames ==
    Returned =>
        \A i, j \in DOMAIN zip_buffer.filelist :
            i # j => zip_buffer.filelist[i].filename # zip_buffer.filelist[j].filename

---------------------------------------------------------------------------
(* C6 *)

\* The filename policy in one pass over the name: ", " and any other space
\* each become "_".
RECURSIVE Sanitized(_)
Sanitized(s) ==
    IF s = <<>> THEN <<>>
    ELSE IF Len(s) >= 2 /\ s[1] = "," /\ s[2] = " "
         THEN <<"_">> \o Sanitized(SubSeq(s, 3, Len(s)))
    ELSE IF s[1] = " " THEN <<"_">> \o Sanitized(Tail(s))
    ELSE <<s[1]>> \o Sanitized(Tail(s))

IsDigit(c) == \E d \in 1..10 : DigitChars[d] = c

\* The number a string of digits writes.
RECURSIVE DigitsValue(_)
DigitsValue(s) ==
    IF s = <<>> THEN 0
    ELSE 10 * DigitsValue(SubSeq(s, 1, Len(s) - 1))
            + ((CHOOSE d \in 1..10 : DigitChars[d] = s[Len(s)]) - 1)

\* ts has the form YYYYMMDD_HHMMSS and writes the instant t.
IsTimestampOf(ts, t) ==
    /\ Len(ts) = 15
    /\ ts[9] = "_"
    /\ \A p \in (1..15) \ {9} : IsDigit(ts[p])
    /\ DigitsValue(SubSeq(ts, 1, 4)) = t.year
    /\ DigitsValue(SubSeq(ts, 5, 6)) = t.month
    /\ DigitsValue(SubSeq(ts, 7, 8)) = t.day
    /\ DigitsValue(SubSeq(ts, 10, 11)) = t.hour
    /\ DigitsValue(SubSeq(ts, 12, 13)) = t.minute
    /\ DigitsValue(SubSeq(ts, 14, 15)) = t.second

Los_Angeles_California ==
    <<"L", "o", "s", "_", "A", "n", "g", "e", "l", "e", "s", "_",
      "C", "a", "l", "i", "f", "o", "r", "n", "i", "a">>

\* The 15 characters before a filename's ".csv".
StampOf(filename) == SubSeq(filename, Len(filename) - 18, Len(filename) - 4)

\* C6: every entry's filename is its group's county_state with ", " and then
\* every other space replaced by "_", then "_", the YYYYMMDD_HHMMSS form of
\* the instant the call read, then ".csv"; all entries of the archive carry
\* the same timestamp; "Los Angeles, California" gives the prefix
\* "Los_Angeles_California".
C6_Filenames ==
    Returned =>
        \A k \in Keys :
            LET filename == EntryFor(k).filename
            IN  /\ Len(filename) >= 20
                /\ IsTimestampOf(StampOf(filename), clock)
                /\ filename = Sanitized(k) \o <<"_">> \o StampOf(filename)
                                  \o <<".", "c", "s", "v">>
                /\ \A k2 \in Keys : StampOf(EntryFor(k2).filename) = StampOf(filename)
                /\ (k = LosAngeles \o <<",", " ">> \o California) =>
                       SubSeq(filename, 1, Len(filename) - 20) = Los_Angeles_California

\* An archive of three entries, that of Los Angeles, California among them.
C6_Witness ==
    /\ Returned
    /\ Cardinality(Keys) = 3
    /\ (LosAngeles \o <<",", " ">> \o California) \in Keys
    /\ clock.minute = 58

---------------------------------------------------------------------------
(* C7 *)

\* C7: on an input of zero records, the column-less table included,
\* create_zip_archive raises nothing and returns an archive of zero entries.
C7_EmptyInput ==
    (Ended /\ InputRows = <<>>) =>
        /\ Returned
        /\ zip_buffer.filelist = <<>>

---------------------------------------------------------------------------
(* C8 *)

\* C8: in every run of main, the call of create_zip_archive and the download
\* button are reached only with a non-empty loaded table and a non-empty
\* selection; a run whose load gave an empty table ends with the warning and
\* has rendered no table, built no archive and shown no button; a run with
\* an empty selection ends with the prompt and has not called the builder.
C8_Guarded ==
    /\ (pc \in {"archive", "download", "raised"}
            \/ zip_buffer # NoBuffer
            \/ "download_button" \in ui
            \/ "dataframe" \in ui)
           => (~IsEmpty(df) /\ selected_counties # {})
    /\ (pc = "done" /\ IsEmpty(df))
           => /\ "warning" \in ui
              /\ ui \subseteq {"error", "warning"}
              /\ zip_buffer = NoBuffer
    /\ (pc = "done" /\ ~IsEmpty(df) /\ selected_counties = {})
           => /\ ui = {"info"}
              /\ zip_buffer = NoBuffer

\* A second run that ended on the warning, after the first run's load failed.
C8_Witness ==
    /\ pc = "done"
    /\ runs = 2
    /\ IsEmpty(df)
    /\ "warning" \in ui

---------------------------------------------------------------------------
(* C9 *)

\* C9: the step of main that filters leaves the reference table as it was
\* and hands the builder exactly the reference records whose county_state
\* is selected: no filtered record is unselected, every selected reference
\* record is there as often as in the reference table, in the same order.
C9_FilterExact ==
    [][(pc = "branch" /\ pc' = "archive") =>
          /\ df' = df
          /\ cache' = cache
          /\ \A i \in DOMAIN df_filtered'.rows :
                df_filtered'.rows[i].county_state \in selected_counties
          /\ \A r \in Range(df.rows) :
                r.county_state \in selected_counties
                    => Count(r, df_filtered'.rows) = Count(r, df.rows)
          /\ \A i, j \in DOMAIN df_filtered'.rows :
                (i < j /\ df_filtered'.rows[i] # df_filtered'.rows[j]) =>
                    \E a, b \in DOMAIN df.rows :
                        /\ a < b
                        /\ df.rows[a] = df_filtered'.rows[i]
                        /\ df.rows[b] = df_filtered'.rows[j]
      ]_vars

\* A filter that kept two records of a table of three.
C9_Witness ==
    /\ pc = "archive"
    /\ Len(df.rows) = 3
    /\ Len(df_filtered.rows) = 2
    /\ Cardinality(selected_counties) = 2

---------------------------------------------------------------------------
(* C10 *)

\* C10: over all calls of load_data in a process the provider is queried at
\* most once; the first call to complete memoizes what it returns, the
\* empty table of a failed load too, and every later call returns the
\* memoized table without querying the provider or changing the memo.
C10_Memoized ==
    /\ [](fetches <= 1)
    /\ [][(pc = "load" /\ pc' = "check") =>
             /\ cache'.hit
             /\ df' = cache'.value
             /\ cache.hit => (cache' = cache /\ fetches' = fetches)
             /\ ~cache.hit => fetches' = 1
         ]_vars

\* A second call that returned the empty table of a failed first load.
C10_Witness ==
    /\ runs = 2
    /\ pc = "check"
    /\ fetches = 1
    /\ df = EmptyFrame
    /\ "error" \notin ui

====
